---- MODULE Spec2Model ----
(***************************************************************************)
(* A model of the question crawler: the extractor (parser.py), the         *)
(* normalizer, the concurrent page crawl and the CSV writer (crawler.py).  *)
(*                                                                         *)
(* Text is a sequence of characters; a character is a one-element TLA+     *)
(* string.  The Chinese characters of the source are written with their    *)
(* pinyin names: "zheng","que" is 正确, "cuo","wu" is 错误, "shi" is 是,   *)
(* "dui" is 对, "fou" is 否, "bu","dui" is 不对, "cuo" is 错, and the type *)
(* labels 判断题, 多选题, 单选题 are "pan","duan","ti" / "duo","xuan","ti" *)
(* / "dan","xuan","ti".                                                    *)
(***************************************************************************)
EXTENDS Integers, Sequences, FiniteSets, TLC

VARIABLES
    pc,            \* the next step of the caller: "parse", "process",
                   \* "save", ...; "raised" once an exception has left it
    questions,     \* process_questions: the input batch
    result,        \* what the operation under study returned
    fragment,      \* parse_question_from_html: the markup fragment
    parsed,        \* parse_question_from_html: what it returned
    pages,         \* crawl: per page, the state of its future
    all_questions, \* crawl: the accumulated batch
    yielded,       \* crawl: the futures as_completed has yielded so far
    output_file,   \* crawl: the output file name
    fs             \* the file system: file name -> text written

vars == <<pc, questions, result, fragment, parsed, pages, all_questions,
          yielded, output_file, fs>>

----------------------------------------------------------------------------
(* Python's str operations                                                 *)

\* the characters str.strip() removes
Whitespace == {" ", "\t", "\n", "\r"}

RECURSIVE LStripSet(_, _)
LStripSet(s, cs) ==
    IF s # <<>> /\ Head(s) \in cs THEN LStripSet(Tail(s), cs) ELSE s

RECURSIVE RStripSet(_, _)
RStripSet(s, cs) ==
    IF s # <<>> /\ s[Len(s)] \in cs
    THEN RStripSet(SubSeq(s, 1, Len(s) - 1), cs)
    ELSE s

\* s.strip(chars)
StripSet(s, cs) == RStripSet(LStripSet(s, cs), cs)

\* s.strip()
Strip(s) == StripSet(s, Whitespace)

\* c in s, for a single character c
Contains(s, c) == \E i \in 1..Len(s) : s[i] = c

\* s.replace(c, ""), for a single character c
RemoveChar(s, c) == SelectSeq(s, LAMBDA x : x # c)

\* s[n:]
DropFirst(s, n) == SubSeq(s, n + 1, Len(s))

\* whether old occurs in s at position i
MatchAt(s, old, i) ==
    /\ i + Len(old) - 1 <= Len(s)
    /\ \A k \in 1..Len(old) : s[i + k - 1] = old[k]

\* s.replace(old, new), old non-empty: the non-overlapping occurrences,
\* left to right
RECURSIVE ReplaceFrom(_, _, _, _)
ReplaceFrom(s, old, new, i) ==
    IF i > Len(s) THEN <<>>
    ELSE IF MatchAt(s, old, i)
         THEN new \o ReplaceFrom(s, old, new, i + Len(old))
         ELSE <<s[i]>> \o ReplaceFrom(s, old, new, i + 1)

Replace(s, old, new) == ReplaceFrom(s, old, new, 1)

----------------------------------------------------------------------------
(* Python values: a tag and a payload.  A dict is a function from keys     *)
(* (text) to values, a str is its text.                                    *)

PyDict(f) == [tag |-> "dict", v |-> f]
PyStr(s)  == [tag |-> "str", v |-> s]
PyList(l) == [tag |-> "list", v |-> l]
PyNone    == [tag |-> "None", v |-> <<>>]
PyInt(d)  == [tag |-> "int", v |-> d]

EmptyMap == [k \in {} |-> <<>>]

\* d[k] = x on a dict payload
DictSet(f, k, x) == [j \in DOMAIN f \cup {k} |-> IF j = k THEN x ELSE f[j]]

\* d.get(k, "") on a dict payload holding text
DictGet(f, k) == IF k \in DOMAIN f THEN f[k] ELSE PyStr(<<>>)

----------------------------------------------------------------------------
(* The normalizer: crawler.py, process_questions                           *)

JUDGMENT == <<"pan", "duan", "ti">>
MULTI    == <<"duo", "xuan", "ti">>
SINGLE   == <<"dan", "xuan", "ti">>

TrueText  == <<"zheng", "que">>
FalseText == <<"cuo", "wu">>

LabelA == <<"A">>
LabelB == <<"B">>

TrueAnswers ==
    { <<"zheng", "que">>, <<"shi">>, <<"dui">>, <<"1">>,
      <<"T", "r", "u", "e">>, <<"Y">>, <<"T">>, <<"A">> }

FalseAnswers ==
    { <<"cuo", "wu">>, <<"fou">>, <<"bu", "dui">>, <<"0">>,
      <<"F", "a", "l", "s", "e">>, <<"N">>, <<"F">>, <<"B">> }

\* the true branch matching the letter in either case
IsTrueAnswer_AnyCase(original_answer) ==
    \/ original_answer \in TrueAnswers
    \/ Contains(original_answer, "A")
    \/ Contains(original_answer, "a")

\* line 167: the condition of the branch that sets "A"
IsTrueAnswer(original_answer) ==
    original_answer \in TrueAnswers \/ Contains(original_answer, "A")

\* line 169: the condition of the branch that sets "B"
IsFalseAnswer(original_answer) ==
    original_answer \in FalseAnswers \/ Contains(original_answer, "B")

\* lines 159, 167-172: the answer of the converted record
JudgmentAnswer(correct_answer) ==
    LET original_answer == Strip(correct_answer) IN
    IF IsTrueAnswer(original_answer) THEN <<"A">>
    ELSE IF IsFalseAnswer(original_answer) THEN <<"B">>
    ELSE correct_answer

\* lines 162-164, 174: the options of the converted record (a dict payload)
JudgmentOptions(f) ==
    DictSet(DictSet(f, LabelA, PyStr(TrueText)), LabelB, PyStr(FalseText))

\* options["A"] = ... raises TypeError on anything but a dict
ConvertRaises(question) == question.options.tag # "dict"

convert_judgment_to_choice(question) ==
    [question EXCEPT
        !.options = PyDict(JudgmentOptions(question.options.v)),
        !.correct_answer = JudgmentAnswer(question.correct_answer)]

\* the chain without the replace of the single quote
CleanMultiAnswer_KeepsQuote(s) ==
    RemoveChar(RemoveChar(RemoveChar(RemoveChar(RemoveChar(
        s, "["), "]"), " "), "\""), ",")

\* line 142: the chain of replace calls
CleanMultiAnswer(s) ==
    RemoveChar(RemoveChar(RemoveChar(RemoveChar(RemoveChar(RemoveChar(
        s, "["), "]"), " "), "\""), "'"), ",")

\* lines 137-142: the record as rewritten before it is classified
NormalizeRecord(q) ==
    LET q1 == IF q.type = JUDGMENT THEN convert_judgment_to_choice(q) ELSE q
    IN IF q1.type = MULTI
       THEN [q1 EXCEPT !.correct_answer = CleanMultiAnswer(q1.correct_answer)]
       ELSE q1

\* the test without the strip
AnswerMissing_NoStrip(q) == q.correct_answer = <<>>

\* line 145: not q.get("correct_answer", "").strip()
AnswerMissing(q) == Strip(q.correct_answer) = <<>>

\* lines 135-150: the loop from record i on; raised when a record raises
RECURSIVE ProcessFrom(_, _, _, _)
ProcessFrom(qs, i, processed, empty) ==
    IF i > Len(qs)
    THEN [raised |-> FALSE, processed_questions |-> processed,
          empty_answer_questions |-> empty]
    ELSE IF qs[i].type = JUDGMENT /\ ConvertRaises(qs[i])
    THEN [raised |-> TRUE, processed_questions |-> <<>>,
          empty_answer_questions |-> <<>>]
    ELSE LET q == NormalizeRecord(qs[i]) IN
         IF AnswerMissing(q)
         THEN ProcessFrom(qs, i + 1, processed, Append(empty, q))
         ELSE ProcessFrom(qs, i + 1, Append(processed, q), empty)

process_questions(qs) == ProcessFrom(qs, 1, <<>>, <<>>)

----------------------------------------------------------------------------
(* Bounds and input sets of the normalizer's specifications                *)

MaxBatch == 3
MaxAnsLen == 2

\* the characters the generated answers are made of
AnsChars == {"A", "B", " ", "\t", "\"", "'", ",", "[", "]", ";", "dui", "bu"}

RECURSIVE TextsUpTo(_, _)
TextsUpTo(chars, n) ==
    IF n = 0 THEN {<<>>}
    ELSE LET shorter == TextsUpTo(chars, n - 1) IN
         shorter \cup {Append(s, c) : s \in shorter, c \in chars}

\* the multi-select answer as the page renders it: ["A", "B", "C"]
ListABC ==
    <<"[", "\"", "A", "\"", ",", " ", "\"", "B", "\"", ",", " ",
      "\"", "C", "\"", "]">>

NamedAnswers ==
    TrueAnswers \cup FalseAnswers
        \cup {<<"cuo">>, <<"f", "a", "l", "s", "e">>, ListABC}

AnswerTexts == TextsUpTo(AnsChars, MaxAnsLen) \cup NamedAnswers

OptionMaps ==
    { EmptyMap,
      [k \in {<<"C">>} |-> PyStr(<<"x">>)],
      [k \in {LabelA, LabelB} |-> PyStr(<<"o">>)] }

Question(type, prompt, options, answer) ==
    [type |-> type, question |-> prompt, options |-> options,
     source |-> <<>>, correct_answer |-> answer,
     knowledge_point |-> <<"k">>]

\* one record of every kind and answer text
RecordInputs ==
    { Question(t, <<"p">>, PyDict(o), a) :
        t \in {JUDGMENT, MULTI, SINGLE}, o \in OptionMaps, a \in AnswerTexts }

\* the records the batches are made of
BatchRecords ==
    { Question(t, <<"p">>, PyDict(EmptyMap), a) :
        t \in {JUDGMENT, MULTI, SINGLE},
        a \in {<<"A">>, <<>>, <<" ", " ">>, <<"[", "]">>, <<"cuo">>} }
    \cup { Question(SINGLE, <<"q">>, PyDict(EmptyMap), <<"A">>) }

RECURSIVE SeqsUpTo(_, _)
SeqsUpTo(S, n) ==
    IF n = 0 THEN {<<>>}
    ELSE LET shorter == SeqsUpTo(S, n - 1) IN
         shorter \cup {Append(s, x) : s \in shorter, x \in S}

\* the variables of the extractor, where it is not used
IdleExtract ==
    /\ fragment = [card |-> FALSE]
    /\ parsed = [status |-> "absent"]

\* the variables a specification does not use
IdleCrawl ==
    /\ pages = <<>>
    /\ all_questions = <<>>
    /\ yielded = {}
    /\ output_file = <<>>
    /\ fs = EmptyMap

InitBatch ==
    /\ pc = "process"
    /\ questions \in SeqsUpTo(BatchRecords, MaxBatch)
    /\ result = [raised |-> FALSE, processed_questions |-> <<>>,
                 empty_answer_questions |-> <<>>]
    /\ IdleExtract
    /\ IdleCrawl

InitRecord ==
    /\ pc = "process"
    /\ \E q \in RecordInputs : questions = <<q>>
    /\ result = [raised |-> FALSE, processed_questions |-> <<>>,
                 empty_answer_questions |-> <<>>]
    /\ IdleExtract
    /\ IdleCrawl

\* a call of process_questions on the batch
ProcessQuestions ==
    /\ pc = "process"
    /\ result' = process_questions(questions)
    /\ pc' = IF result'.raised THEN "raised" ELSE "save"
    /\ UNCHANGED <<questions, fragment, parsed, pages, all_questions,
                   yielded, output_file, fs>>

SpecNormalize == InitBatch /\ [][ProcessQuestions]_vars

SpecRecord == InitRecord /\ [][ProcessQuestions]_vars

----------------------------------------------------------------------------
(* Claims about the normalizer                                             *)

\* a text that is empty once trimmed
IsBlank(s) == \A i \in 1..Len(s) : s[i] \in Whitespace

\* the records process_questions returned, answered first
Returned == result.processed_questions \o result.empty_answer_questions

\* C1: process_questions returns two lists that partition the batch: the
\* i-th input record, normalized, is in the answer-missing list exactly when
\* its answer is blank and in the answered list otherwise, each list in
\* input order, nothing dropped and nothing duplicated.
C1_StablePartition ==
    pc = "save" =>
        LET n == [i \in 1..Len(questions) |-> NormalizeRecord(questions[i])]
        IN /\ ~result.raised
           /\ result.processed_questions
                = SelectSeq(n, LAMBDA q : ~IsBlank(q.correct_answer))
           /\ result.empty_answer_questions
                = SelectSeq(n, LAMBDA q : IsBlank(q.correct_answer))
           /\ Len(result.processed_questions)
                + Len(result.empty_answer_questions) = Len(questions)

\* the batch of the answers "A", "", "  " has been partitioned 1 : 2
C1_Witness ==
    /\ pc = "save"
    /\ Len(questions) = 3
    /\ questions[1].correct_answer = <<"A">>
    /\ questions[2].correct_answer = <<>>
    /\ questions[3].correct_answer = <<" ", " ">>
    /\ Len(result.processed_questions) = 1
    /\ Len(result.empty_answer_questions) = 2

\* C3: after process_questions a judgment record has exactly the two
\* options A (true text) and B (false text), and a non-empty answer is "A"
\* or "B".
C3_JudgmentIsBinary ==
    (pc = "save" /\ questions[1].type = JUDGMENT) =>
        \A i \in 1..Len(Returned) :
            LET q == Returned[i] IN
            /\ DOMAIN q.options.v = {LabelA, LabelB}
            /\ q.options.v[LabelA] = PyStr(TrueText)
            /\ q.options.v[LabelB] = PyStr(FalseText)
            /\ (q.correct_answer # <<>>
                    => q.correct_answer \in {<<"A">>, <<"B">>})

\* C4: a judgment record answered "dui" (对) becomes "A" with the options
\* {A: true text, B: false text}; one answered "cuo" (错) becomes "B".
C4_DuiCuo ==
    (/\ pc = "save"
     /\ questions[1].type = JUDGMENT
     /\ questions[1].options.v = EmptyMap) =>
        /\ questions[1].correct_answer = <<"dui">> =>
              /\ Returned[1].correct_answer = <<"A">>
              /\ Returned[1].options
                   = PyDict([k \in {LabelA, LabelB} |->
                              IF k = LabelA THEN PyStr(TrueText)
                              ELSE PyStr(FalseText)])
        /\ questions[1].correct_answer = <<"cuo">> =>
              Returned[1].correct_answer = <<"B">>

\* the true and false sets as the claim lists them
ClaimTrueSet ==
    { <<"zheng", "que">>, <<"shi">>, <<"dui">>, <<"1">>,
      <<"T", "r", "u", "e">>, <<"Y">>, <<"T">>, <<"A">> }

ClaimFalseSet ==
    { <<"cuo", "wu">>, <<"fou">>, <<"bu", "dui">>, <<"0">>,
      <<"F", "a", "l", "s", "e">>, <<"N">>, <<"F">>, <<"B">> }

\* the text without its leading and trailing characters of cs, stated by
\* position
TrimmedOf(s, cs) ==
    LET keep == {i \in 1..Len(s) : s[i] \notin cs} IN
    IF keep = {} THEN <<>>
    ELSE LET lo == CHOOSE i \in keep : \A j \in keep : i <= j
             hi == CHOOSE i \in keep : \A j \in keep : j <= i
         IN SubSeq(s, lo, hi)

\* the text without its leading and trailing whitespace
Trimmed(s) == TrimmedOf(s, Whitespace)

Punctuation == {"[", "]", " ", "\t", "\"", "'", ",", ";"}

\* C6 as stated: after process_questions the answer of a multi-select
\* record holds no punctuation or delimiter character, whatever raw answer
\* (a text the extractor trimmed) it had.
C6_OnlyLetters ==
    (/\ pc = "save"
     /\ questions[1].type = MULTI
     /\ questions[1].correct_answer = Strip(questions[1].correct_answer)) =>
        \A i \in 1..Len(Returned[1].correct_answer) :
            Returned[1].correct_answer[i] \notin Punctuation

\* the six characters line 142 removes
ListSyntax == {"[", "]", " ", "\"", "'", ","}

\* C6 as amended: the answer of a multi-select record holds none of the six
\* characters [ ] space " ' , and is the raw answer with exactly those
\* removed; every other character is kept.
C6_ListSyntaxRemoved ==
    (pc = "save" /\ questions[1].type = MULTI) =>
        LET raw == questions[1].correct_answer
            got == Returned[1].correct_answer
        IN /\ \A i \in 1..Len(got) : got[i] \notin ListSyntax
           /\ got = SelectSeq(raw, LAMBDA c : c \notin ListSyntax)

\* ["A", "B", "C"] has become ABC
C6_Witness ==
    /\ pc = "save"
    /\ questions[1].type = MULTI
    /\ questions[1].correct_answer = ListABC
    /\ Returned[1].correct_answer = <<"A", "B", "C">>

----------------------------------------------------------------------------
(* The extractor: parser.py, parse_question_from_html                      *)
(*                                                                         *)
(* A fragment is what BeautifulSoup finds in the markup: whether the       *)
(* question-card wrapper is there and, for every inner element, whether it *)
(* is there and its text.  An attribute value is the text between the      *)
(* quotes of the markup, where "&quot;" and "&amp;quot;" are one character *)
(* each (the entity and the entity escaped once more).                     *)

Absent == [present |-> FALSE, text |-> <<>>]
Element(t) == [present |-> TRUE, text |-> t]

\* element.get_text(strip=True) if element else ""
TextOf(el) == IF el.present THEN Strip(el.text) ELSE <<>>

\* html.parser hands attribute values over with their entities replaced
SoupUnescapeChar(c) ==
    IF c = "&quot;" THEN "\""
    ELSE IF c = "&amp;quot;" THEN "&quot;"
    ELSE c

\* options_container.get('data-options')
SoupAttr(raw) == [i \in 1..Len(raw) |-> SoupUnescapeChar(raw[i])]

\* line 42: str(data_options).replace('&quot;', '"')
CleanDataOptions(data_options) == Replace(data_options, <<"&quot;">>, <<"\"">>)

----------------------------------------------------------------------------
(* json.loads, on texts made of { } [ ] : , " space, letters, the digit 1  *)
(* and the literal null (one character here).  A parse gives              *)
(* [ok, val, next]: whether a value starts at the position, the value and  *)
(* the position after it.                                                  *)

JsonFail == [ok |-> FALSE, val |-> PyNone, next |-> 0]
JsonOk(val, next) == [ok |-> TRUE, val |-> val, next |-> next]

\* the first position from i on that holds no whitespace
RECURSIVE SkipWs(_, _)
SkipWs(s, i) == IF i <= Len(s) /\ s[i] = " " THEN SkipWs(s, i + 1) ELSE i

\* the position of the quote that closes the string whose text starts at i
\* (0 when there is none)
RECURSIVE ClosingQuote(_, _)
ClosingQuote(s, i) ==
    IF i > Len(s) THEN 0
    ELSE IF s[i] = "\"" THEN i
    ELSE ClosingQuote(s, i + 1)

\* the end of the run of digits that starts at i
RECURSIVE DigitsEnd(_, _)
DigitsEnd(s, i) ==
    IF i <= Len(s) /\ s[i] = "1" THEN DigitsEnd(s, i + 1) ELSE i

\* a string whose opening quote is at i
JsonString(s, i) ==
    LET close == ClosingQuote(s, i + 1) IN
    IF close = 0 THEN JsonFail
    ELSE JsonOk(PyStr(SubSeq(s, i + 1, close - 1)), close + 1)

RECURSIVE JsonValue(_, _)
RECURSIVE JsonMembers(_, _, _)
RECURSIVE JsonElements(_, _, _)

\* the members of an object from position i on (a key is expected at i),
\* added to the dict payload f: a later key replaces an earlier equal one
JsonMembers(s, i, f) ==
    IF i > Len(s) \/ s[i] # "\"" THEN JsonFail
    ELSE LET key == JsonString(s, i) IN
         IF ~key.ok THEN JsonFail
         ELSE LET colon == SkipWs(s, key.next) IN
              IF colon > Len(s) \/ s[colon] # ":" THEN JsonFail
              ELSE LET value == JsonValue(s, SkipWs(s, colon + 1)) IN
                   IF ~value.ok THEN JsonFail
                   ELSE LET g == DictSet(f, key.val.v, value.val)
                            after == SkipWs(s, value.next)
                        IN IF after > Len(s) THEN JsonFail
                           ELSE IF s[after] = "}"
                                THEN JsonOk(PyDict(g), after + 1)
                           ELSE IF s[after] = ","
                                THEN JsonMembers(s, SkipWs(s, after + 1), g)
                           ELSE JsonFail

\* the elements of an array from position i on, appended to l
JsonElements(s, i, l) ==
    LET value == JsonValue(s, i) IN
    IF ~value.ok THEN JsonFail
    ELSE LET m == Append(l, value.val)
             after == SkipWs(s, value.next)
         IN IF after > Len(s) THEN JsonFail
            ELSE IF s[after] = "]" THEN JsonOk(PyList(m), after + 1)
            ELSE IF s[after] = ","
                 THEN JsonElements(s, SkipWs(s, after + 1), m)
            ELSE JsonFail

\* the value that starts at position i
JsonValue(s, i) ==
    IF i > Len(s) THEN JsonFail
    ELSE IF s[i] = "\"" THEN JsonString(s, i)
    ELSE IF s[i] = "null" THEN JsonOk(PyNone, i + 1)
    ELSE IF s[i] = "1"
         THEN JsonOk(PyInt(SubSeq(s, i, DigitsEnd(s, i) - 1)), DigitsEnd(s, i))
    ELSE IF s[i] = "{"
         THEN LET j == SkipWs(s, i + 1) IN
              IF j <= Len(s) /\ s[j] = "}" THEN JsonOk(PyDict(EmptyMap), j + 1)
              ELSE JsonMembers(s, j, EmptyMap)
    ELSE IF s[i] = "["
         THEN LET j == SkipWs(s, i + 1) IN
              IF j <= Len(s) /\ s[j] = "]" THEN JsonOk(PyList(<<>>), j + 1)
              ELSE JsonElements(s, j, <<>>)
    ELSE JsonFail

\* json.loads(s): one value, whitespace around it, nothing after it;
\* not ok stands for json.JSONDecodeError
JsonLoads(s) ==
    LET value == JsonValue(s, SkipWs(s, 1)) IN
    IF value.ok /\ SkipWs(s, value.next) = Len(s) + 1 THEN value ELSE JsonFail

----------------------------------------------------------------------------
(* Option extraction: parser.py, lines 34-68                               *)
(*                                                                         *)
(* A rendered item is its option-label span (label) and the text after it  *)
(* (rest).                                                                 *)

\* lines 48-49: label_element.get_text(strip=True).rstrip(':'), or ""
ItemLabel(item) ==
    IF item.label.present THEN RStripSet(Strip(item.label.text), {":"})
    ELSE <<>>

\* item.get_text(): every string of the item, as it is
ItemRawText(item) ==
    (IF item.label.present THEN item.label.text ELSE <<>>) \o item.rest

\* item.get_text(strip=True): the strings of the item, each one stripped,
\* joined with nothing between them
ItemStrippedText(item) == TextOf(item.label) \o Strip(item.rest)

\* line 50: item.get_text(strip=True)[3:] if item.get_text() else ""
ItemText(item) ==
    IF ItemRawText(item) # <<>> THEN DropFirst(ItemStrippedText(item), 3)
    ELSE <<>>

\* lines 46-51, 54-59: every item written into the dict payload f
RECURSIVE FillFrom(_, _, _)
FillFrom(items, i, f) ==
    IF i > Len(items) THEN f
    ELSE FillFrom(items, i + 1,
                  DictSet(f, ItemLabel(items[i]), PyStr(ItemText(items[i]))))

\* whether s holds sub as a substring
IsSubstring(sub, s) == \E i \in 1..(Len(s) + 1) : MatchAt(s, sub, i)

\* label not in options_data raises TypeError on None and on a number
MembershipRaises(val) == val.tag \in {"None", "int"}

\* the test that finds no label
HasLabel_Never(val, label) == FALSE

\* label in options_data, where the test is defined
HasLabel(val, label) ==
    IF val.tag = "dict" THEN label \in DOMAIN val.v
    ELSE IF val.tag = "list"
         THEN \E e \in 1..Len(val.v) :
                 val.v[e].tag = "str" /\ val.v[e].v = label
    ELSE IsSubstring(label, val.v)

\* lines 62-68: the labels options_data lacks are added to it; raised when
\* the test or the assignment raises TypeError
RECURSIVE MergeFrom(_, _, _)
MergeFrom(items, i, val) ==
    IF i > Len(items) THEN [raised |-> FALSE, val |-> val]
    ELSE LET label == ItemLabel(items[i]) IN
         IF label = <<>> THEN MergeFrom(items, i + 1, val)
         ELSE IF MembershipRaises(val) THEN [raised |-> TRUE, val |-> val]
         ELSE IF HasLabel(val, label) THEN MergeFrom(items, i + 1, val)
         ELSE IF val.tag # "dict" THEN [raised |-> TRUE, val |-> val]
         ELSE MergeFrom(items, i + 1,
                        PyDict(DictSet(val.v, label,
                                       PyStr(ItemText(items[i])))))

\* lines 38-59: options_data before the merge
SeedOptions(container) ==
    LET data_options ==
            IF container.data_options.present
            THEN SoupAttr(container.data_options.text)
            ELSE <<>>
        decoded == JsonLoads(CleanDataOptions(data_options))
    IN IF data_options # <<>> /\ decoded.ok THEN decoded.val
       ELSE PyDict(FillFrom(container.items, 1, EmptyMap))

\* lines 34-68
ExtractOptions(container) ==
    IF ~container.present THEN [raised |-> FALSE, val |-> PyDict(EmptyMap)]
    ELSE MergeFrom(container.items, 1, SeedOptions(container))

\* lines 18-94: absent, a record, or an exception that leaves the function
parse_question_from_html(html) ==
    IF ~html.card THEN [status |-> "absent"]
    ELSE LET options == ExtractOptions(html.container) IN
         IF options.raised THEN [status |-> "raised"]
         ELSE [status |-> "record",
               record |->
                 [type |-> TextOf(html.type),
                  question |-> TextOf(html.text),
                  options |-> options.val,
                  source |-> TextOf(html.source),
                  correct_answer |-> TextOf(html.answer),
                  knowledge_point |-> TextOf(html.knowledge_point)]]

----------------------------------------------------------------------------
(* Bounds and input sets of the extractor's specification                  *)

MaxAttrLen == 2
MaxItems == 2

\* the characters the generated attribute values are made of
AttrChars == {"{", "}", "[", "]", ":", ",", "&quot;", "A", "1", "null"}

\* "k": "v" as the markup holds it, the quotes written q
Pair(q, k, v) == <<q, k, q, ":", q, v, q>>

\* {"A":"x","B":"y"}, the quotes written q
AttrABxy(q) == <<"{">> \o Pair(q, "A", "x") \o <<",">> \o Pair(q, "B", "y") \o <<"}">>

NamedAttrs ==
    { AttrABxy("&quot;"),
      AttrABxy("&amp;quot;"),
      \* {"A":"x"  (not closed)
      <<"{">> \o Pair("&quot;", "A", "x"),
      \* { "A" : "x" }
      <<"{", " ", "&quot;", "A", "&quot;", " ", ":", " ", "&quot;", "x",
        "&quot;", " ", "}">>,
      \* {"A":"x","A":"y"}
      <<"{">> \o Pair("&quot;", "A", "x") \o <<",">>
          \o Pair("&quot;", "A", "y") \o <<"}">>,
      \* {"A":{"B":"y"}}
      <<"{", "&quot;", "A", "&quot;", ":", "{">> \o Pair("&quot;", "B", "y")
          \o <<"}", "}">>,
      \* ["A"]
      <<"[", "&quot;", "A", "&quot;", "]">>,
      \* "AC"
      <<"&quot;", "A", "C", "&quot;">> }

AttrValues ==
    {Absent} \cup {Element(a) : a \in TextsUpTo(AttrChars, MaxAttrLen) \cup NamedAttrs}

ItemA  == [label |-> Element(<<"A", ":">>), rest |-> <<" ", "r", "a">>]
ItemA2 == [label |-> Element(<<" ", "A", ":", " ">>), rest |-> <<"r", "z">>]
ItemC  == [label |-> Element(<<"C", ":">>), rest |-> <<" ", "r", "c", "\n">>]
ItemBare == [label |-> Absent, rest |-> <<"B", ":", " ", "n">>]

ItemSet == {ItemA, ItemA2, ItemC, ItemBare}

AbsentContainer == [present |-> FALSE, data_options |-> Absent, items |-> <<>>]

Containers ==
    { [present |-> TRUE, data_options |-> a, items |-> l] :
        a \in AttrValues, l \in SeqsUpTo(ItemSet, MaxItems) }

\* a card with every inner element, around each container
ContainerFragments ==
    { [card |-> TRUE, type |-> Element(t), text |-> Element(<<"p">>),
       container |-> c, source |-> Element(<<"s">>),
       answer |-> Element(<<"\"", "B", "\"">>),
       knowledge_point |-> Element(<<"k">>)] :
        t \in {SINGLE, JUDGMENT}, c \in Containers }

Maybe(t) == {Absent, Element(t)}

\* a fragment with any of its elements missing
MissingFragments ==
    { [card |-> w, type |-> t, text |-> p, container |-> c, source |-> s,
       answer |-> a, knowledge_point |-> k] :
        w \in BOOLEAN, t \in Maybe(JUDGMENT), p \in Maybe(<<" ", "p">>),
        c \in {AbsentContainer,
               [present |-> TRUE, data_options |-> Absent,
                items |-> <<ItemA>>]},
        s \in Maybe(<<"s">>), a \in Maybe(<<"dui">>), k \in Maybe(<<"k">>) }

Fragments == ContainerFragments \cup MissingFragments

InitExtract ==
    /\ pc = "parse"
    /\ fragment \in Fragments
    /\ parsed = [status |-> "absent"]
    /\ questions = <<>>
    /\ result = [raised |-> FALSE, processed_questions |-> <<>>,
                 empty_answer_questions |-> <<>>]
    /\ IdleCrawl

\* a call of parse_question_from_html on the fragment; a record goes on to
\* process_questions as a batch of one
ParseQuestion ==
    /\ pc = "parse"
    /\ parsed' = parse_question_from_html(fragment)
    /\ IF parsed'.status = "record"
       THEN questions' = <<parsed'.record>> /\ pc' = "process"
       ELSE /\ questions' = questions
            /\ pc' = IF parsed'.status = "raised" THEN "raised" ELSE "done"
    /\ UNCHANGED <<result, fragment, pages, all_questions, yielded,
                   output_file, fs>>

NextExtract == ParseQuestion \/ ProcessQuestions

SpecExtract == InitExtract /\ [][NextExtract]_vars

----------------------------------------------------------------------------
(* Claims about the extractor                                              *)

\* what the encoded attribute of the fragment decodes to
Encoded ==
    JsonLoads(CleanDataOptions(SoupAttr(fragment.container.data_options.text)))

\* the fragment has an options container whose attribute decodes to a
\* mapping
HasEncodedMapping ==
    /\ fragment.card
    /\ fragment.container.present
    /\ fragment.container.data_options.present
    /\ fragment.container.data_options.text # <<>>
    /\ Encoded.ok
    /\ Encoded.val.tag = "dict"

SameValue(a, b) == a.tag = b.tag /\ a.v = b.v

C8_NeverFails ==
    /\ pc # "parse" =>
          /\ parsed.status \in {"absent", "record"}
          /\ parsed.status = "absent" <=> ~fragment.card
    /\ pc # "raised"

\* the value first populated for a label that a rendered item carries: the
\* encoded value when the encoded mapping holds the label, else the text of
\* the earliest rendered item with that label
FirstPopulated(label) ==
    LET items == fragment.container.items
        first == CHOOSE i \in 1..Len(items) :
                    /\ ItemLabel(items[i]) = label
                    /\ \A j \in 1..(i - 1) : ItemLabel(items[j]) # label
    IN IF HasEncodedMapping /\ label \in DOMAIN Encoded.val.v
       THEN Encoded.val.v[label]
       ELSE PyStr(ItemText(items[first]))

\* C11: in every path of option extraction (attribute decoded, decoding
\* failed, attribute absent) the text returned for a label that a rendered
\* item carries is the value first populated for it; with the rendered
\* items as the only source and two items of the same label, the text of
\* the earlier item is returned.
C11_FirstPopulatedKept ==
    (/\ pc # "parse"
     /\ parsed.status = "record"
     /\ fragment.container.present
     /\ parsed.record.options.tag = "dict") =>
        LET items == fragment.container.items
            rendered == {ItemLabel(items[i]) : i \in 1..Len(items)} \ {<<>>}
        IN \A label \in rendered :
              /\ label \in DOMAIN parsed.record.options.v
              /\ SameValue(parsed.record.options.v[label],
                           FirstPopulated(label))

----------------------------------------------------------------------------
(* The CSV writer: crawler.py, save_questions_to_csv                       *)

\* str(i) for i >= 0
RECURSIVE IntToText(_)
IntToText(i) ==
    LET digit == <<"0", "1", "2", "3", "4", "5", "6", "7", "8", "9">>
    IN IF i < 10 THEN <<digit[i + 1]>>
       ELSE Append(IntToText(i \div 10), digit[(i % 10) + 1])

\* what csv writes for a value: "" for None, str(value) otherwise
CellText(val) == IF val.tag = "None" THEN <<>> ELSE val.v

\* the characters that make csv.writer quote a field: the delimiter, the
\* quote and the characters of the line terminator
CsvSpecial == {",", "\"", "\r", "\n"}

\* the field with every quote doubled
RECURSIVE DoubleQuotes(_)
DoubleQuotes(s) ==
    IF s = <<>> THEN <<>>
    ELSE (IF Head(s) = "\"" THEN <<"\"", "\"">> ELSE <<Head(s)>>)
             \o DoubleQuotes(Tail(s))

\* the field quoted with its own quotes left single
CsvField_NoDoubling(s) ==
    IF \E i \in 1..Len(s) : s[i] \in CsvSpecial
    THEN <<"\"">> \o s \o <<"\"">>
    ELSE s

\* a field as csv.writer writes it (QUOTE_MINIMAL, doublequote)
CsvField(s) ==
    IF \E i \in 1..Len(s) : s[i] \in CsvSpecial
    THEN <<"\"">> \o DoubleQuotes(s) \o <<"\"">>
    ELSE s

\* writer.writerow: the fields joined with commas, then "\r\n"
RECURSIVE CsvJoin(_)
CsvJoin(fields) ==
    IF Len(fields) = 1 THEN CsvField(fields[1])
    ELSE CsvField(Head(fields)) \o <<",">> \o CsvJoin(Tail(fields))

CsvRow(fields) == CsvJoin(fields) \o <<"\r", "\n">>

\* line 185: 题号, 题干, A, B, C, D, E, 答案, 难度, 题型
fieldnames ==
    << <<"ti", "hao">>, <<"ti", "gan">>, <<"A">>, <<"B">>, <<"C">>, <<"D">>,
       <<"E">>, <<"da", "an">>, <<"nan", "du">>, <<"ti", "xing">> >>

\* lines 190-201: the row of the i-th record
QuestionRow(i, q) ==
    << IntToText(i),
       q.question,
       CellText(DictGet(q.options.v, <<"A">>)),
       CellText(DictGet(q.options.v, <<"B">>)),
       CellText(DictGet(q.options.v, <<"C">>)),
       CellText(DictGet(q.options.v, <<"D">>)),
       CellText(DictGet(q.options.v, <<"E">>)),
       StripSet(q.correct_answer, {"\""}),
       q.knowledge_point,
       q.type >>

\* lines 189-202: the rows from the i-th record on
RECURSIVE CsvRowsFrom(_, _)
CsvRowsFrom(qs, i) ==
    IF i > Len(qs) THEN <<>>
    ELSE CsvRow(QuestionRow(i, qs[i])) \o CsvRowsFrom(qs, i + 1)

\* q.get("options", {}).get(...) raises AttributeError on anything but a
\* dict
SaveRaises(qs) == \E i \in 1..Len(qs) : qs[i].options.tag # "dict"

\* lines 184-202: the text of the file: the byte-order mark of utf-8-sig,
\* the header, the rows
CsvText(qs) == <<"BOM">> \o CsvRow(fieldnames) \o CsvRowsFrom(qs, 1)

\* open(output_file, 'w') and the writes
WriteFile(files, name, text) ==
    [n \in DOMAIN files \cup {name} |-> IF n = name THEN text ELSE files[n]]

\* line 120: output_file.replace('.csv', '_empty_answers.csv')
EmptySuffix ==
    <<"_", "e", "m", "p", "t", "y", "_", "a", "n", "s", "w", "e", "r", "s",
      ".", "c", "s", "v">>

empty_output_file(name) == Replace(name, <<".", "c", "s", "v">>, EmptySuffix)

\* what the file holds when save_questions_to_csv returns or raises: the
\* rows before the first record that raises have been written
SavedText(qs) ==
    LET bad == {i \in 1..Len(qs) : qs[i].options.tag # "dict"} IN
    IF bad = {} THEN CsvText(qs)
    ELSE CsvText(SubSeq(qs, 1, (CHOOSE i \in bad : \A j \in bad : i <= j) - 1))

\* line 116: save_questions_to_csv(processed_questions, output_file)
SaveAnswered ==
    /\ pc = "save"
    /\ fs' = WriteFile(fs, output_file, SavedText(result.processed_questions))
    /\ pc' = IF SaveRaises(result.processed_questions) THEN "raised"
             ELSE "save_empty"
    /\ UNCHANGED <<questions, result, fragment, parsed, pages, all_questions,
                   yielded, output_file>>

\* lines 119-122: the answer-missing records, when there are any, go to
\* the file named by the replace
SaveEmpty ==
    /\ pc = "save_empty"
    /\ fs' = IF result.empty_answer_questions = <<>> THEN fs
             ELSE WriteFile(fs, empty_output_file(output_file),
                            SavedText(result.empty_answer_questions))
    /\ pc' = IF SaveRaises(result.empty_answer_questions) THEN "raised"
             ELSE "done"
    /\ UNCHANGED <<questions, result, fragment, parsed, pages, all_questions,
                   yielded, output_file>>

----------------------------------------------------------------------------
(* Bounds and input sets of the writer's specification                     *)

MaxRows == 2
MaxFieldLen == 2

\* the characters the generated fields are made of
CsvChars == {"a", ",", "\"", "\n", "\r"}

PlainQuestion == Question(SINGLE, <<"p">>, PyDict(EmptyMap), <<"A">>)

PlainRecords == {PlainQuestion, [PlainQuestion EXCEPT !.correct_answer = <<>>]}

\* records with one field out of the ordinary
RichRecords ==
    { [PlainQuestion EXCEPT !.question = t] :
        t \in TextsUpTo(CsvChars, MaxFieldLen) }
    \cup { [PlainQuestion EXCEPT !.correct_answer = a] :
        a \in { <<"\"", "B", "\"">>, <<"A", "\"", "B">>,
                <<"\"", "\"", "A", "B", "\"">>, <<"\"", "A", " ", "B", "\"">> } }
    \cup { [PlainQuestion EXCEPT !.options = PyDict(o)] :
        o \in { [k \in {<<"A">>, <<"E">>} |-> PyStr(<<"x", ",", "y">>)],
                [k \in {<<"B">>, <<"F">>} |-> PyStr(<<"\"">>)],
                [k \in {<<"C">>, <<"D">>} |-> PyStr(<<>>)] } }
    \cup { [PlainQuestion EXCEPT !.knowledge_point = <<"k", "\n">>],
           [PlainQuestion EXCEPT !.type = <<>>],
           Question(JUDGMENT, <<"p">>, PyDict(EmptyMap), <<"dui">>),
           Question(MULTI, <<"p">>, PyDict(EmptyMap), ListABC) }

\* s with x put in at position k
InsertAt(s, k, x) == SubSeq(s, 1, k - 1) \o <<x>> \o SubSeq(s, k, Len(s))

\* batches of up to MaxRows records, at most one of them rich
CsvBatches ==
    SeqsUpTo(PlainRecords, MaxRows)
    \cup UNION { { InsertAt(b, k, r) : k \in 1..(Len(b) + 1), r \in RichRecords } :
                    b \in SeqsUpTo(PlainRecords, MaxRows - 1) }

\* line 69: the default file name, "questions.csv"
DefaultOutputFile ==
    <<"q", "u", "e", "s", "t", "i", "o", "n", "s", ".", "c", "s", "v">>

InitCsv ==
    /\ pc = "process"
    /\ questions \in CsvBatches
    /\ result = [raised |-> FALSE, processed_questions |-> <<>>,
                 empty_answer_questions |-> <<>>]
    /\ IdleExtract
    /\ pages = <<>>
    /\ all_questions = <<>>
    /\ yielded = {}
    /\ output_file = DefaultOutputFile
    /\ fs = EmptyMap

NextCsv == ProcessQuestions \/ SaveAnswered \/ SaveEmpty

SpecCsv == InitCsv /\ [][NextCsv]_vars

----------------------------------------------------------------------------
(* The concurrent crawl: crawler.py, crawl_and_save_questions              *)
(*                                                                         *)
(* pages[p] is the future of page p: its state ("unsubmitted", "pending",  *)
(* "running", "finished"), how the fetch ended (outcome) and the records   *)
(* in the body of the response (body).                                     *)

\* Config.max_pages, as a bound of the model
max_pages == 3

\* line 93: the ceiling of the worker pool
PoolCeiling == 10

Pages == 1..max_pages

\* line 93: max_workers
max_workers == IF PoolCeiling < max_pages THEN PoolCeiling ELSE max_pages

\* the records a page may hold
PageBodies ==
    { <<>>, <<PlainQuestion>>,
      <<[PlainQuestion EXCEPT !.correct_answer = <<>>]>>,
      <<Question(JUDGMENT, <<"j">>, PyDict(EmptyMap), <<"dui">>),
        [PlainQuestion EXCEPT !.correct_answer = <<>>]>> }

\* how a fetch ends: status 200, another status, an exception inside the
\* try (a transport error, a timeout), an exception before it
\* (create_session)
Outcomes ==
    {[outcome |-> "ok", body |-> b] : b \in PageBodies}
    \cup { [outcome |-> "status", body |-> <<PlainQuestion>>],
           [outcome |-> "exception", body |-> <<>>],
           [outcome |-> "session", body |-> <<>>] }

\* get_questions: what the future holds; the future of a page whose
\* session could not be created holds an exception
FutureRaises(outcome) == outcome = "session"

\* get_questions returning the records of the body whatever the status
FetchResult_AnyStatus(outcome, body) == body

\* lines 55-65: the questions get_questions returns
FetchResult(outcome, body) == IF outcome = "ok" THEN body ELSE <<>>

OutputFiles ==
    { DefaultOutputFile,
      <<"q", ".", "t", "x", "t">>,
      <<"a", ".", "c", "s", "v", ".", "c", "s", "v">> }

Init ==
    /\ pc = "submit"
    /\ pages = [p \in Pages |->
                  [state |-> "unsubmitted", outcome |-> "none", body |-> <<>>]]
    /\ all_questions = <<>>
    /\ yielded = {}
    /\ output_file \in OutputFiles
    /\ fs = EmptyMap
    /\ questions = <<>>
    /\ result = [raised |-> FALSE, processed_questions |-> <<>>,
                 empty_answer_questions |-> <<>>]
    /\ IdleExtract

\* lines 95-96: executor.submit, page by page
Submit ==
    /\ pc = "submit"
    /\ LET p == CHOOSE q \in Pages :
                    /\ pages[q].state = "unsubmitted"
                    /\ \A r \in Pages : pages[r].state = "unsubmitted" => q <= r
       IN /\ pages' = [pages EXCEPT ![p].state = "pending"]
          /\ pc' = IF p = max_pages THEN "collect" ELSE "submit"
    /\ UNCHANGED <<questions, result, fragment, parsed, all_questions,
                   yielded, output_file, fs>>

\* a free worker of the pool takes a submitted page
StartFetch(p) ==
    /\ pages[p].state = "pending"
    /\ Cardinality({q \in Pages : pages[q].state = "running"}) < max_workers
    /\ pages' = [pages EXCEPT ![p].state = "running"]
    /\ UNCHANGED <<pc, questions, result, fragment, parsed, all_questions,
                   yielded, output_file, fs>>

\* lines 26-67: get_questions ends, whatever the other pages do
FinishFetch(p) ==
    /\ pages[p].state = "running"
    /\ \E o \in Outcomes :
          pages' = [pages EXCEPT ![p] = [state |-> "finished",
                                         outcome |-> o.outcome,
                                         body |-> o.body]]
    /\ UNCHANGED <<pc, questions, result, fragment, parsed, all_questions,
                   yielded, output_file, fs>>

\* lines 99-108: as_completed yields a finished future; its questions, when
\* it has any, are added to all_questions
Collect(p) ==
    /\ pc = "collect"
    /\ pages[p].state = "finished"
    /\ p \notin yielded
    /\ yielded' = yielded \cup {p}
    /\ all_questions' =
          IF FutureRaises(pages[p].outcome) THEN all_questions
          ELSE all_questions \o FetchResult(pages[p].outcome, pages[p].body)
    /\ UNCHANGED <<pc, questions, result, fragment, parsed, pages,
                   output_file, fs>>

\* lines 99, 113: every future has been yielded; the batch goes to
\* process_questions
LeavePool ==
    /\ pc = "collect"
    /\ yielded = Pages
    /\ questions' = all_questions
    /\ pc' = "process"
    /\ UNCHANGED <<result, fragment, parsed, pages, all_questions, yielded,
                   output_file, fs>>

Next ==
    \/ Submit
    \/ \E p \in Pages : StartFetch(p)
    \/ \E p \in Pages : FinishFetch(p)
    \/ \E p \in Pages : Collect(p)
    \/ LeavePool
    \/ ProcessQuestions
    \/ SaveAnswered
    \/ SaveEmpty

Spec == Init /\ [][Next]_vars

----------------------------------------------------------------------------
(* Reading a file back: csv.reader over the file opened with newline=''    *)
(* and utf-8-sig, as the claims about the written files use it.            *)

ReaderStart == [state |-> "START_RECORD", field |-> <<>>, row |-> <<>>, rows |-> <<>>]

SaveField(p, next) ==
    [p EXCEPT !.row = Append(p.row, p.field), !.field = <<>>, !.state = next]

AddChar(p, c, next) == [p EXCEPT !.field = Append(p.field, c), !.state = next]

\* one character of a line
ReaderStep(p, c) ==
    LET nl == c \in {"\r", "\n"}
        start_field ==
            IF nl THEN SaveField(p, "EAT_CRNL")
            ELSE IF c = "\"" THEN [p EXCEPT !.state = "IN_QUOTED_FIELD"]
            ELSE IF c = "," THEN SaveField(p, "START_FIELD")
            ELSE AddChar(p, c, "IN_FIELD")
    IN CASE p.state = "START_RECORD" ->
              IF nl THEN [p EXCEPT !.state = "EAT_CRNL"] ELSE start_field
         [] p.state = "START_FIELD" -> start_field
         [] p.state = "IN_FIELD" ->
              IF nl THEN SaveField(p, "EAT_CRNL")
              ELSE IF c = "," THEN SaveField(p, "START_FIELD")
              ELSE AddChar(p, c, "IN_FIELD")
         [] p.state = "IN_QUOTED_FIELD" ->
              IF c = "\"" THEN [p EXCEPT !.state = "QUOTE_IN_QUOTED_FIELD"]
              ELSE AddChar(p, c, "IN_QUOTED_FIELD")
         [] p.state = "QUOTE_IN_QUOTED_FIELD" ->
              IF c = "\"" THEN AddChar(p, c, "IN_QUOTED_FIELD")
              ELSE IF c = "," THEN SaveField(p, "START_FIELD")
              ELSE IF nl THEN SaveField(p, "EAT_CRNL")
              ELSE AddChar(p, c, "IN_FIELD")
         [] OTHER -> p

\* the end of a line: the record is complete unless a quoted field is open
ReaderEndOfLine(p) ==
    LET emit(q) == [q EXCEPT !.rows = Append(q.rows, q.row), !.row = <<>>,
                             !.state = "START_RECORD"]
    IN CASE p.state \in {"START_FIELD", "IN_FIELD", "QUOTE_IN_QUOTED_FIELD"} ->
              emit(SaveField(p, "START_RECORD"))
         [] p.state = "EAT_CRNL" -> emit(p)
         [] OTHER -> p

\* the character at position i, and the end of its line when it ends one
ReaderChar(text, i, p) ==
    LET c == text[i]
        line_ends ==
            \/ c = "\n"
            \/ c = "\r" /\ (i = Len(text) \/ text[i + 1] # "\n")
        q == ReaderStep(p, c)
    IN IF line_ends THEN ReaderEndOfLine(q) ELSE q

\* the characters at the positions lo..hi, in order
RECURSIVE ReaderRange(_, _, _, _)
ReaderRange(text, lo, hi, p) ==
    IF lo > hi THEN p
    ELSE IF lo = hi THEN ReaderChar(text, lo, p)
    ELSE LET mid == (lo + hi) \div 2
             left == ReaderRange(text, lo, mid, p)
         IN \* the test has TLC evaluate the left half before the right one
            IF left.state = "START_RECORD"
            THEN ReaderRange(text, mid + 1, hi, left)
            ELSE ReaderRange(text, mid + 1, hi, left)

\* the end of the file: a record that is under way is returned as it is
ReaderFrom(text, p) ==
    LET q == ReaderRange(text, 1, Len(text), p) IN
    IF q.state = "START_RECORD" THEN q.rows
    ELSE Append(q.rows, Append(q.row, q.field))

\* the rows of the file, the header first
ReadBack(text) ==
    ReaderFrom(IF text # <<>> /\ text[1] = "BOM" THEN Tail(text) ELSE text,
               ReaderStart)

----------------------------------------------------------------------------
(* Claims about the written files                                          *)

\* the text of option k of the record, blank when it has none
OptionText(q, k) ==
    IF k \in DOMAIN q.options.v THEN q.options.v[k].v ELSE <<>>

\* the row that stands for the i-th record, its answer given as answer
RowOf(i, q, answer) ==
    << IntToText(i), q.question, OptionText(q, <<"A">>), OptionText(q, <<"B">>),
       OptionText(q, <<"C">>), OptionText(q, <<"D">>), OptionText(q, <<"E">>),
       answer, q.knowledge_point, q.type >>

\* the answered file has been written
AnsweredSaved == pc \in {"save_empty", "done"}

\* C9 as stated: read back, the i-th row of the answered file is the index
\* i, the prompt, the option texts A to E, the answer trimmed of
\* surrounding whitespace, the knowledge point and the type of the i-th
\* answered record.
C9_RoundTripTrimmed ==
    AnsweredSaved =>
        LET rows == ReadBack(fs[output_file])
            qs == result.processed_questions
        IN /\ Len(rows) = Len(qs) + 1
           /\ \A i \in 1..Len(qs) :
                 rows[i + 1] = RowOf(i, qs[i], Trimmed(qs[i].correct_answer))

\* C9 as amended: the same, the answer stripped of its leading and trailing
\* double quotes (its whitespace kept); the first row is the header.
C9_RoundTripUnquoted ==
    AnsweredSaved =>
        LET rows == ReadBack(fs[output_file])
            qs == result.processed_questions
        IN /\ Len(rows) = Len(qs) + 1
           /\ rows[1] = fieldnames
           /\ \A i \in 1..Len(qs) :
                 rows[i + 1] = RowOf(i, qs[i], TrimmedOf(qs[i].correct_answer, {"\""}))

\* two answered records have been written, the first with a prompt that
\* holds a quote and a line break
C9_Witness ==
    /\ AnsweredSaved
    /\ Len(result.processed_questions) = 2
    /\ result.processed_questions[1].question = <<"\"", "\n">>
    /\ Len(ReadBack(fs[output_file])) = 3
    /\ ReadBack(fs[output_file])[2][2] = <<"\"", "\n">>

----------------------------------------------------------------------------
(* Claims about the crawl                                                  *)

\* the orders in which the pages may have been collected
PageOrders ==
    {f \in [1..max_pages -> Pages] : \A i, j \in 1..max_pages : f[i] = f[j] => i = j}

\* what a page owes the batch: the records of its body when its fetch
\* succeeded, nothing when it failed
Owed(p) == IF pages[p].outcome = "ok" THEN pages[p].body ELSE <<>>

RECURSIVE OwedInOrder(_, _)
OwedInOrder(order, i) ==
    IF i > max_pages THEN <<>>
    ELSE Owed(order[i]) \o OwedInOrder(order, i + 1)

\* C7: whatever the interleaving and whichever pages fail, when the pool is
\* left every page has been fetched, and the batch handed to
\* process_questions is, in some order of the pages, the records of every
\* successful page once and nothing of a failed page.
C7_EveryPageOnce ==
    pc \notin {"submit", "collect"} =>
        /\ \A p \in Pages : pages[p].state = "finished"
        /\ \E order \in PageOrders : questions = OwedInOrder(order, 1)

\* a page failed with a status, another with an exception, a third
\* succeeded, and the batch is the third's records
C7_Witness ==
    /\ pc = "process"
    /\ \E p, q, r \in Pages :
          /\ pages[p].outcome = "status"
          /\ pages[q].outcome \in {"exception", "session"}
          /\ pages[r].outcome = "ok"
          /\ pages[r].body # <<>>
          /\ questions = pages[r].body

\* C10: whatever the output file name, the answer-missing records go to a
\* file other than the answered file, which after the run still holds the
\* answered records.
C10_AnsweredFileKept ==
    pc = "done" =>
        /\ fs[output_file] = CsvText(result.processed_questions)
        /\ result.empty_answer_questions # <<>> =>
              /\ empty_output_file(output_file) # output_file
              /\ fs[empty_output_file(output_file)]
                    = CsvText(result.empty_answer_questions)

====
